---- MODULE Spec2Model ----
(***************************************************************************)
(* A model of the SC-DLAC chart scripts: the two generator scripts that    *)
(* load the latest JSON result file per dataset pattern and then render    *)
(* their charts, the validator script, and the stand-alone scripts under   *)
(* graphs/.  The file system is modelled by the listing of the results     *)
(* directory, the set of existing directories and the set of image files.  *)
(***************************************************************************)
EXTENDS Integers, Sequences, FiniteSets, TLC

\* ------------------------------------------------------------------ bounds
\* At most this many files in the results directory.
MaxFiles == 2
\* Modification times are drawn from 1..MaxMtime.
MaxMtime == 2
\* At most this many script invocations, one after the other, in SpecRuns.
MaxRuns == 2
\* At most this many calls of a loader on one visualizer in SpecReload.
MaxLoads == 2

\* ---------------------------------------------------------- program tables
\* A glob pattern is written as its '-'-separated segments.
EnhancedPatterns ==
  << <<"comprehensive", "test", "results", "*.json">>,
     <<"detailed", "gas", "analysis", "*.json">>,
     <<"system", "responsiveness", "analysis", "*.json">>,
     <<"dacems", "vs", "traditional", "comparison", "*.json">>,
     <<"enhanced", "comprehensive", "performance", "*.json">>,
     <<"security", "tests", "*.json">>,
     <<"healthcare", "workflows", "*.json">>,
     <<"emergency", "access", "scenarios", "*.json">> >>

\* pattern.split('-')[-1]: the text after the last '-'.
SplitKeyLast(pattern) == pattern[Len(pattern)]

\* pattern.split('-')[0]
SplitKey(pattern) == Head(pattern)

\* The six loads of load_test_data, in program order: glob pattern and the
\* key the parsed file is stored under.
ScdlacLoads ==
  << [pattern |-> <<"security", "tests", "*.json">>, key |-> "security"],
     [pattern |-> <<"comprehensive", "test", "results", "*.json">>,
      key |-> "comprehensive"],
     [pattern |-> <<"emergency", "access", "scenarios", "*.json">>,
      key |-> "emergency-access-scenarios"],
     [pattern |-> <<"healthcare", "workflows", "*.json">>,
      key |-> "healthcare-workflows"],
     [pattern |-> <<"audit", "trail", "integrity", "*.json">>,
      key |-> "audit-trail-integrity"],
     [pattern |-> <<"fault", "tolerance", "recovery", "*.json">>,
      key |-> "fault-tolerance-recovery"] >>

\* The eight loads of load_comprehensive_data seen the same way.
EnhancedLoads ==
  [i \in DOMAIN EnhancedPatterns |->
     [pattern |-> EnhancedPatterns[i], key |-> SplitKey(EnhancedPatterns[i])]]

\* Chart methods in the order generate_all_visualizations calls them: the
\* method, the file it saves and the keys of self.data it reads.
EnhancedCharts ==
  << [method |-> "create_enhanced_performance_analysis",
      file |-> "enhanced_performance_analysis.png",
      reads |-> {"enhanced", "system", "detailed", "dacems"}],
     [method |-> "create_comprehensive_security_analysis",
      file |-> "comprehensive_security_analysis.png",
      reads |-> {"security"}],
     [method |-> "create_healthcare_workflow_analysis",
      file |-> "healthcare_workflow_analysis.png", reads |-> {}],
     [method |-> "create_emergency_access_performance",
      file |-> "emergency_access_performance.png", reads |-> {}],
     [method |-> "create_system_scalability_analysis",
      file |-> "system_scalability_analysis.png", reads |-> {}],
     [method |-> "create_comparative_advantage_analysis",
      file |-> "comparative_advantage_analysis.png", reads |-> {}],
     [method |-> "create_executive_summary_dashboard",
      file |-> "executive_summary_dashboard.png", reads |-> {}] >>

ScdlacCharts ==
  << [method |-> "create_security_analysis",
      file |-> "security_analysis.png", reads |-> {"security"}],
     [method |-> "create_performance_comparison",
      file |-> "performance_comparison.png", reads |-> {}],
     [method |-> "create_healthcare_workflow_analysis",
      file |-> "healthcare_workflow_analysis.png", reads |-> {}],
     [method |-> "create_executive_summary",
      file |-> "executive_summary.png", reads |-> {}],
     [method |-> "create_journal_figure_1",
      file |-> "figure_1_system_overview.png", reads |-> {}] >>

ValidatorCharts ==
  << [method |-> "fix_enhanced_performance_analysis",
      file |-> "validated_enhanced_performance_analysis.png", reads |-> {}],
     [method |-> "fix_comprehensive_security_analysis",
      file |-> "validated_comprehensive_security_analysis.png", reads |-> {}],
     [method |-> "fix_comparative_advantage_analysis",
      file |-> "validated_comparative_advantage_analysis.png", reads |-> {}],
     [method |-> "fix_system_scalability_analysis",
      file |-> "validated_system_scalability_analysis.png", reads |-> {}] >>

\* The chart methods that draw part of a series with np.random.normal.
RandomCharts == {"fix_system_scalability_analysis"}

\* copy_validated_excellent_visualizations: the three names it copies.
ExcellentFiles ==
  << [src |-> "executive_summary_dashboard.png",
      dest |-> "validated_executive_summary_dashboard.png"],
     [src |-> "emergency_access_performance.png",
      dest |-> "validated_emergency_access_performance.png"],
     [src |-> "healthcare_workflow_analysis.png",
      dest |-> "validated_healthcare_workflow_analysis.png"] >>

ClassScripts == {"enhanced", "scdlac", "validator"}

OutputDir(s) ==
  CASE s = "enhanced" -> "enhanced_journal_figures"
    [] s = "scdlac" -> "journal_figures"
    [] s = "validator" -> "validated_publication_figures"
    [] OTHER -> "."

Charts(s) ==
  CASE s = "enhanced" -> EnhancedCharts
    [] s = "scdlac" -> ScdlacCharts
    [] s = "validator" -> ValidatorCharts
    [] OTHER -> << >>

Loads(s) ==
  CASE s = "enhanced" -> EnhancedLoads
    [] s = "scdlac" -> ScdlacLoads
    [] OTHER -> << >>

\* The scripts under graphs/: the files each saves in the working directory
\* and the number of figures it only shows on screen.
GraphScripts ==
  { [script |-> "access-flow-breakdown.py", saves |-> {"access_flow_breakdown.jpg"}, shows |-> 0],
    [script |-> "access_policy.py", saves |-> {"access_policy_operations.jpg"}, shows |-> 0],
    [script |-> "combined_transaction.py", saves |-> {"combined_transaction_times.jpg"}, shows |-> 0],
    [script |-> "data_policy.py", saves |-> {"data_policy_performance.jpg"}, shows |-> 0],
    [script |-> "deployment_gas.py", saves |-> {"deployment_gas_costs.jpg"}, shows |-> 0],
    [script |-> "encrypt_decrypt.py", saves |-> {"encryption_decryption_performance.jpg"}, shows |-> 0],
    [script |-> "graph.py", saves |-> {}, shows |-> 7],
    [script |-> "operational_gas.py", saves |-> {"operational_gas_costs.jpg"}, shows |-> 0],
    [script |-> "responsive.py", saves |-> {"system_responsiveness.jpg"}, shows |-> 0],
    [script |-> "system-responsiveness.py", saves |-> {"system_responsiveness.jpg"}, shows |-> 0],
    [script |-> "transaction_time.py", saves |-> {"transaction_times.jpg"}, shows |-> 0],
    [script |-> "zkproof-scaling.py", saves |-> {"zkproof_scaling.jpg"}, shows |-> 0],
    [script |-> "zkproof.py", saves |-> {"zkproof_performance.jpg"}, shows |-> 0],
    [script |-> "zkproof_component_breakdown.py", saves |-> {"zkproof_breakdown.jpg"}, shows |-> 0] }

\* graphs/operational_gas.py: the two lists its bar chart is drawn from,
\* barh(functions[::-1], gas_costs[::-1]), so that the first entry is the
\* top bar.
functions ==
  << "requestDelegatedEmergencyAccess", "createPatientRecord",
     "updatePatientData", "createDID", "revokeDelegatedEmergencyAccess",
     "assignRole", "createDelegationPolicy", "submitProof", "addRole",
     "addAttribute", "grantPermission", "revokeRole", "revokePermission",
     "updateDIDRegistry", "updatePolicy" >>

gas_costs ==
  << 529692, 355561, 278768, 272041, 202191, 222190, 191714, 43285, 109112,
     64661, 60843, 60364, 40986, 27363, 25696 >>

\* fix_enhanced_performance_analysis: the latency panel's lists, one entry
\* per operation, in hundredths of a millisecond (78.09 is 7809).
operations ==
  << "Data Access", "Data Update", "ZK Proof\nSubmission", "Policy Creation" >>

means == << 7809, 12615, 6189, 6184 >>

p95s == << 8410, 14270, 7120, 7010 >>

\* The P99 line drawn from the P95 list.
p99s_from_p95s == p95s

p99s == << 9230, 16820, 8150, 7890 >>

\* The load panel's lists, one entry per request rate, in milliseconds.
request_rates == << 1, 5, 10, 20, 40 >>

avg_latencies == << 80, 85, 90, 95, 100 >>

p95_latencies == << 85, 92, 98, 106, 118 >>

\* ------------------------------------------------------------ file system
\* A file of the results directory: its name (the '-'-separated segments
\* before the extension, and the extension), its modification time and what
\* parsing it gives: "malformed" (json.load raises), "wellformed" (the fields
\* the charts index are there) or "misshapen" (valid JSON whose fields break
\* the chart that reads them).
Bodies == {"malformed", "wellformed", "misshapen"}

Stamps == {"20240101", "20240215"}

ResultNames ==
  { [segs |-> p \o <<s>>, ext |-> "json"] :
      p \in { <<"security", "tests">>, <<"healthcare", "workflows">> },
      s \in Stamps }

\* A name that none of the patterns matches: security-tests-20240215.json.bak
BackupName == [segs |-> <<"security", "tests", "20240215">>, ext |-> "json.bak"]

\* The keys of self.data some chart method reads.
ReadKeys ==
  UNION { {EnhancedCharts[i].reads : i \in DOMAIN EnhancedCharts},
          {ScdlacCharts[i].reads : i \in DOMAIN ScdlacCharts} }

\* The files there can be.  What a parseable file holds matters to the chart
\* that reads it only, so a file of a dataset no chart reads comes with one
\* parseable content here; RunFiles has both.
ResultFiles ==
  { f \in [name : ResultNames, mtime : 1..MaxMtime, body : Bodies] :
      f.body = "misshapen" => \E r \in ReadKeys : Head(f.name.segs) \in r }
    \cup { [name |-> BackupName, mtime |-> MaxMtime, body |-> "malformed"] }

RECURSIVE Listings(_)
\* The listings (directory entries in the order scandir yields them) of at
\* most n files with pairwise different names.
Listings(n) ==
  IF n = 0 THEN { << >> }
  ELSE LET shorter == Listings(n - 1)
       IN shorter \cup
          { Append(l, f) : l \in {x \in shorter : Len(x) = n - 1},
                           f \in ResultFiles }

DistinctNames(l) == \A i, j \in DOMAIN l : l[i].name = l[j].name => i = j

\* Path.glob(pattern): a name matches when it starts with the pattern's
\* segments before the wildcard and ends in .json.
Matches(name, pattern) ==
  LET fixed == SubSeq(pattern, 1, Len(pattern) - 1)
  IN /\ name.ext = "json"
     /\ Len(name.segs) > Len(fixed)
     /\ SubSeq(name.segs, 1, Len(fixed)) = fixed

RECURSIVE Filter(_, _)
Filter(listing, pattern) ==
  IF listing = << >> THEN << >>
  ELSE IF Matches(Head(listing).name, pattern)
       THEN <<Head(listing)>> \o Filter(Tail(listing), pattern)
       ELSE Filter(Tail(listing), pattern)

\* list(self.results_dir.glob(pattern)): the matching entries in listing
\* order, none when the directory does not exist.
Glob(existing, listing, pattern) ==
  IF "results" \in existing THEN Filter(listing, pattern) ELSE << >>

\* The guard left out: every pattern is taken to have a match.
AlwaysMatch(files) == TRUE

\* `if files:`
HasMatch(files) == files # << >>

\* files[0] in place of max(): the first entry listed.
FirstListed(files) == files[1]

\* min() in place of max(): the first entry no other entry is older than.
OldestByMtime(files) ==
  LET i == CHOOSE i \in DOMAIN files :
             /\ \A j \in DOMAIN files : files[j].mtime >= files[i].mtime
             /\ \A j \in 1..(i - 1) : files[j].mtime > files[i].mtime
  IN files[i]

\* max(files, key=lambda x: x.stat().st_mtime): the first entry whose
\* modification time no other entry exceeds.
MaxByMtime(files) ==
  LET i == CHOOSE i \in DOMAIN files :
             /\ \A j \in DOMAIN files : files[j].mtime <= files[i].mtime
             /\ \A j \in 1..(i - 1) : files[j].mtime < files[i].mtime
  IN files[i]

\* open(file_path, 'w'): the file is truncated, and no longer parses.
AfterOpenWrite(listing, name) ==
  [i \in DOMAIN listing |->
     IF listing[i].name = name
     THEN [listing[i] EXCEPT !.body = "malformed", !.mtime = MaxMtime]
     ELSE listing[i]]

\* The file is removed once it is read.
AfterOpenRemove(listing, name) ==
  LET i == CHOOSE i \in DOMAIN listing : listing[i].name = name
  IN SubSeq(listing, 1, i - 1) \o SubSeq(listing, i + 1, Len(listing))

\* open(file_path, 'r'): reading leaves the directory as it is.
AfterOpenRead(listing, name) == listing

\* The file now stored under a name (the name is in the listing).
Lookup(listing, name) ==
  listing[CHOOSE i \in DOMAIN listing : listing[i].name = name]

\* json.load(f) of a file that parses.
Parsed(file) == file.body

\* A dict with one more entry.
Put(d, k, v) == (k :> v) @@ d

\* A save that leaves what was at the path next to the new file.
SavefigKeep(files, path, content) ==
  files \cup {[path |-> path, content |-> content]}

\* A figure that is built and closed, never saved.
SavefigNothing(files, path, content) == files

\* plt.savefig(path): one file at the path, whatever was there before.
Savefig(files, path, content) ==
  {f \in files : f.path # path} \cup {[path |-> path, content |-> content]}

\* Path.exists() taken to be true of every path.
ExistsAlways(files, path) == TRUE

\* source_path.exists(): a file is at the path.
Exists(files, path) == \E f \in files : f.path = path

\* mkdir() without exist_ok: FileExistsError when the directory is there.
MkdirExclusive(existing, d) == d \in existing

\* Whether output_dir.mkdir(exist_ok=True) raises: an existing directory is
\* no error, and the parent is the working directory.
MkdirRaises(existing, d) == FALSE

\* output_dir.mkdir(exist_ok=True): the directory exists afterwards, and what
\* existed before still does.
Mkdir(existing, d) == existing \cup {d}

\* A chart method that pops the datasets it has drawn.
DataAfterChartPop(d, chart) == [k \in DOMAIN d \ chart.reads |-> d[k]]

\* The chart methods index self.data and never assign to it.
DataAfterChart(d, chart) == d

\* A chart method that indexes self.data without testing for the key.
RaisesOnAbsent(chart, d) == \E k \in chart.reads : k \notin DOMAIN d

\* A chart that plots all of self.data.
SeriesAll(chart, d) == d

\* A chart method raises when a dataset it reads lacks the fields it indexes.
Raises(chart, d) ==
  \E k \in chart.reads \cap DOMAIN d : d[k] = "misshapen"

\* What a chart plots from self.data: the datasets it reads.
Series(chart, d) == [k \in chart.reads \cap DOMAIN d |-> d[k]]

\* ------------------------------------------------------------------ state
VARIABLES
  results,       \* the listing of the results directory
  dirs,          \* the directories that exist
  out,           \* the image files: [path |-> <<dir, name>>, content |-> ...]
  script,        \* the script being run, "none" before one is invoked
  pc,            \* where the script is: [at |-> ..., i |-> ...]
  data,          \* self.data
  latest_files,  \* latest_files of load_comprehensive_data
  opened,        \* the files opened for reading so far, with their key
  console,       \* the lines printed so far
  exc,           \* "none", "caught" (by generate_*'s except) or "uncaught"
  run,           \* the number of this invocation
  shown,         \* figures shown on screen by plt.show()
  loads          \* the collections the loader calls have produced so far

vars == << results, dirs, out, script, pc, data, latest_files, opened,
           console, exc, run, shown, loads >>

At(a, i) == [at |-> a, i |-> i]

\* What a fresh process starts with.
Fresh ==
  /\ script = "none"
  /\ pc = At("idle", 0)
  /\ data = << >>
  /\ latest_files = << >>
  /\ opened = {}
  /\ console = {}
  /\ exc = "none"
  /\ shown = 0
  /\ loads = << >>

\* Before a script is invoked: a results directory that is missing, or holds
\* at most MaxFiles files in some listing order; no output directory yet.
Init ==
  /\ \E present \in BOOLEAN :
       \E listing \in Listings(MaxFiles) :
         /\ DistinctNames(listing)
         /\ present \/ listing = << >>
         /\ results = listing
         /\ dirs = {"."} \cup (IF present THEN {"results"} ELSE {})
  /\ out = {}
  /\ run = 1
  /\ Fresh

\* A printed line: which message, about which key or file, with which number.
Line(l, k, n) == [line |-> l, key |-> k, n |-> n]

\* except: pass
LogNothing(lines, key) == lines

\* print(f"... Failed to load {key}: {e}")
LogFailure(lines, key) == lines \cup {Line("failed", key, 0)}

\* ---------------------------------------------------------------- actions
\* python <one of the three class-based scripts>
Invoke(s) ==
  /\ pc.at = "idle"
  /\ s \in ClassScripts
  /\ script' = s
  /\ pc' = At("init", 0)
  /\ UNCHANGED << results, dirs, out, data, latest_files, opened, console,
                  exc, run, shown, loads >>

\* A graphs/ script whose savefig leaves what was at the path next to the
\* new file.
RunGraphScriptKeep(g) ==
  /\ pc.at = "idle"
  /\ g \in GraphScripts
  /\ script' = g.script
  /\ out' = out \cup { [path |-> <<".", n>>,
                        content |-> [by |-> g.script, run |-> run,
                                     series |-> << >>, noise |-> 0]] :
                       n \in g.saves }
  /\ shown' = shown + g.shows
  /\ pc' = At("exit", 0)
  /\ UNCHANGED << results, dirs, data, latest_files, opened, console, exc,
                  run, loads >>

\* python graphs/<script>: the module body builds its figure(s); savefig
\* writes each saved file into the working directory, plt.show() only shows.
RunGraphScript(g) ==
  /\ pc.at = "idle"
  /\ g \in GraphScripts
  /\ script' = g.script
  /\ out' = {f \in out : f.path \notin { <<".", n>> : n \in g.saves }}
              \cup { [path |-> <<".", n>>,
                      content |-> [by |-> g.script, run |-> run,
                                   series |-> << >>, noise |-> 0]] :
                     n \in g.saves }
  /\ shown' = shown + g.shows
  /\ pc' = At("exit", 0)
  /\ UNCHANGED << results, dirs, data, latest_files, opened, console, exc,
                  run, loads >>

\* A validator whose loader is the SC-DLAC generator's load_test_data.
LoaderStartReads(s) ==
  IF s = "enhanced" THEN At("find", 1) ELSE At("load", 1)

\* The position the loader of script s starts at.
LoaderStart(s) ==
  CASE s = "enhanced" -> At("find", 1)
    [] s = "scdlac" -> At("load", 1)
    [] OTHER -> At("loaded", 0)

\* __init__ up to the call of the loader: output_dir.mkdir(exist_ok=True).
Construct ==
  /\ pc.at = "init"
  /\ IF MkdirRaises(dirs, OutputDir(script))
     THEN /\ exc' = "uncaught"
          /\ pc' = At("exit", 0)
          /\ dirs' = dirs
     ELSE /\ dirs' = Mkdir(dirs, OutputDir(script))
          /\ pc' = LoaderStart(script)
          /\ exc' = exc
  /\ UNCHANGED << results, out, script, data, latest_files, opened, console,
                  run, shown, loads >>

\* A loop that is left after its first iteration.
NextKeyFirstOnly(lf, i) ==
  LET later == {j \in i..Len(EnhancedLoads) : EnhancedLoads[j].key \in DOMAIN lf}
  IN IF later = {} \/ i > 1 THEN 0 ELSE CHOOSE j \in later : \A k \in later : j <= k

\* The first key at or after position i of the enhanced loader's patterns
\* that latest_files holds, 0 when there is none: the dict is iterated in
\* insertion order, which is pattern order.
NextKey(lf, i) ==
  LET later == {j \in i..Len(EnhancedLoads) : EnhancedLoads[j].key \in DOMAIN lf}
  IN IF later = {} THEN 0 ELSE CHOOSE j \in later : \A k \in later : j <= k

AfterFind(lf) ==
  IF NextKey(lf, 1) = 0 THEN At("loaded", 0) ELSE At("parse", NextKey(lf, 1))

\* One iteration of the first loop of load_comprehensive_data: glob, and
\* when something matches keep the latest file under the pattern's key.
\* After the last pattern self.data is set to {}.
EnhancedFind ==
  /\ pc.at = "find"
  /\ LET ld == EnhancedLoads[pc.i]
         files == Glob(dirs, results, ld.pattern)
         last == pc.i = Len(EnhancedLoads)
     IN IF HasMatch(files) /\ files = << >>
        THEN \* max() of an empty list raises ValueError, outside any try
             /\ exc' = "uncaught"
             /\ pc' = At("exit", pc.i)
             /\ UNCHANGED << latest_files, data >>
        ELSE LET base == IF pc.i = 1 THEN << >> ELSE latest_files
                 lf == IF HasMatch(files)
                       THEN Put(base, ld.key, MaxByMtime(files))
                       ELSE base
             IN /\ latest_files' = lf
                /\ data' = IF last THEN << >> ELSE data
                /\ pc' = IF last THEN AfterFind(lf) ELSE At("find", pc.i + 1)
                /\ exc' = exc
  /\ UNCHANGED << results, dirs, out, script, opened, console, run, shown,
                  loads >>

\* A second loop that, when the file kept for a key fails to parse, falls
\* back to another matching file that parses.
EnhancedParseFallback ==
  /\ pc.at = "parse"
  /\ LET ld == EnhancedLoads[pc.i]
         file == Lookup(results, latest_files[ld.key].name)
         others == {i \in DOMAIN results :
                      /\ Matches(results[i].name, ld.pattern)
                      /\ results[i].body # "malformed"}
         next == NextKey(latest_files, pc.i + 1)
     IN /\ results' = results
        /\ IF file.body # "malformed"
           THEN /\ opened' = opened \cup {[key |-> ld.key, file |-> file]}
                /\ console' = console \cup {Line("loaded", ld.key, 0)}
                /\ data' = Put(data, ld.key, Parsed(file))
           ELSE IF others = {}
           THEN /\ opened' = opened \cup {[key |-> ld.key, file |-> file]}
                /\ console' = LogFailure(console, ld.key)
                /\ data' = data
           ELSE LET other == results[CHOOSE i \in others : TRUE]
                IN /\ opened' = opened \cup {[key |-> ld.key, file |-> file],
                                             [key |-> ld.key, file |-> other]}
                   /\ console' = LogFailure(console, ld.key)
                   /\ data' = Put(data, ld.key, Parsed(other))
        /\ pc' = IF next = 0 THEN At("loaded", 0) ELSE At("parse", next)
  /\ UNCHANGED << dirs, out, script, latest_files, exc, run, shown, loads >>

\* One iteration of the second loop of load_comprehensive_data: open and
\* parse the file kept for a key; a failure is printed and the key skipped.
EnhancedParse ==
  /\ pc.at = "parse"
  /\ LET key == EnhancedLoads[pc.i].key
         name == latest_files[key].name
         file == Lookup(results, name)
         next == NextKey(latest_files, pc.i + 1)
     IN /\ opened' = opened \cup {[key |-> key, file |-> file]}
        /\ results' = AfterOpenRead(results, name)
        /\ IF file.body = "malformed"
           THEN /\ console' = LogFailure(console, key)
                /\ data' = data
           ELSE /\ console' = console \cup {Line("loaded", key, 0)}
                /\ data' = Put(data, key, Parsed(file))
        /\ pc' = IF next = 0 THEN At("loaded", 0) ELSE At("parse", next)
  /\ UNCHANGED << dirs, out, script, latest_files, exc, run, shown, loads >>

\* A load_test_data whose loads are wrapped in try/except as those of the
\* enhanced loader are: a file that fails to parse is printed and skipped.
ScdlacLoadGuarded ==
  /\ pc.at = "load"
  /\ LET ld == ScdlacLoads[pc.i]
         files == Glob(dirs, results, ld.pattern)
         base == IF pc.i = 1 THEN << >> ELSE data
     IN /\ pc' = IF pc.i = Len(ScdlacLoads) THEN At("loaded", 0)
                 ELSE At("load", pc.i + 1)
        /\ IF files = << >>
           THEN /\ data' = base
                /\ UNCHANGED << results, opened, console >>
           ELSE LET latest == MaxByMtime(files)
                IN /\ opened' = opened \cup {[key |-> ld.key, file |-> latest]}
                   /\ results' = AfterOpenRead(results, latest.name)
                   /\ IF latest.body = "malformed"
                      THEN /\ data' = base
                           /\ console' = LogFailure(console, ld.key)
                      ELSE /\ data' = Put(base, ld.key, Parsed(latest))
                           /\ console' = console \cup {Line("loaded", ld.key, 0)}
  /\ UNCHANGED << dirs, out, script, latest_files, exc, run, shown, loads >>

\* One of the six loads of load_test_data (self.data = {} comes before the
\* first): glob, take the latest match, open and parse it.  Nothing catches
\* what json.load raises, so it leaves the constructor and ends the script.
ScdlacLoad ==
  /\ pc.at = "load"
  /\ LET ld == ScdlacLoads[pc.i]
         files == Glob(dirs, results, ld.pattern)
         base == IF pc.i = 1 THEN << >> ELSE data
         next == IF pc.i = Len(ScdlacLoads) THEN At("loaded", 0)
                 ELSE At("load", pc.i + 1)
     IN IF ~HasMatch(files)
        THEN /\ data' = base
             /\ pc' = next
             /\ UNCHANGED << results, opened, console, exc >>
        ELSE IF files = << >>
        THEN \* max() of an empty list raises ValueError
             /\ data' = base
             /\ exc' = "uncaught"
             /\ pc' = At("exit", pc.i)
             /\ UNCHANGED << results, opened, console >>
        ELSE LET latest == MaxByMtime(files)
             IN /\ opened' = opened \cup {[key |-> ld.key, file |-> latest]}
                /\ results' = AfterOpenRead(results, latest.name)
                /\ IF latest.body = "malformed"
                   THEN /\ data' = base
                        /\ exc' = "uncaught"
                        /\ pc' = At("exit", pc.i)
                        /\ console' = console
                   ELSE /\ data' = Put(base, ld.key, Parsed(latest))
                        /\ console' = console \cup {Line("loaded", ld.key, 0)}
                        /\ pc' = next
                        /\ exc' = exc
  /\ UNCHANGED << dirs, out, script, latest_files, run, shown, loads >>

\* The end of the loader: print(f"... Loaded {len(self.data)} data sources")
\* (the validator's load_validated_test_data only sets literals and prints).
\* The constructor's call returns to __main__, which calls generate_*; a
\* later call of the loader returns to its caller, which ends.
Loaded ==
  /\ pc.at = "loaded"
  /\ console' = console \cup {Line("count", "", Cardinality(DOMAIN data))}
  /\ loads' = Append(loads, data)
  /\ pc' = IF loads = << >> THEN At("chart", 1) ELSE At("exit", 0)
  /\ UNCHANGED << results, dirs, out, script, data, latest_files, opened,
                  exc, run, shown >>

\* A generate_* that loads the data again after its first chart method.
AfterChartReload(s, i) ==
  IF i = 1 /\ s \in {"enhanced", "scdlac"} THEN
    (IF s = "enhanced" THEN At("find", 1) ELSE At("load", 1))
  ELSE IF i < Len(Charts(s)) THEN At("chart", i + 1)
  ELSE IF s = "validator" THEN At("copy", 1)
  ELSE At("summary", 0)

\* A generate_* that leaves out its second chart method.
AfterChartSkip(s, i) ==
  IF i = 1 THEN At("chart", 3)
  ELSE IF i < Len(Charts(s)) THEN At("chart", i + 1)
  ELSE IF s = "validator" THEN At("copy", 1)
  ELSE At("summary", 0)

\* Where generate_* goes after its i-th chart method returned.
AfterChart(s, i) ==
  IF i < Len(Charts(s)) THEN At("chart", i + 1)
  ELSE IF s = "validator" THEN At("copy", 1)
  ELSE At("summary", 0)

\* The random draws a chart makes (np.random.normal), none for most.
Noise(chart) == IF chart.method \in RandomCharts THEN {0, 1} ELSE {0}

\* A chart method that returns: it builds the figure from literals and the
\* datasets it reads, saves it at its path in the output directory and prints.
ChartOk ==
  /\ pc.at = "chart"
  /\ LET chart == Charts(script)[pc.i]
     IN /\ ~Raises(chart, data)
        /\ \E noise \in Noise(chart) :
             out' = Savefig(out, <<OutputDir(script), chart.file>>,
                            [by |-> chart.method, run |-> run,
                             series |-> Series(chart, data), noise |-> noise])
        /\ console' = console \cup {Line("created", chart.file, 0)}
        /\ data' = DataAfterChart(data, chart)
        /\ pc' = AfterChart(script, pc.i)
  /\ UNCHANGED << results, dirs, script, latest_files, opened, exc, run,
                  shown, loads >>

\* An except clause that removes what the run has written so far.
ChartRaiseCleanup ==
  /\ pc.at = "chart"
  /\ Raises(Charts(script)[pc.i], data)
  /\ exc' = "caught"
  /\ console' = console \cup {Line("error", "", 0)}
  /\ out' = {f \in out : f.path[1] # OutputDir(script)}
  /\ pc' = At("exit", pc.i)
  /\ UNCHANGED << results, dirs, script, data, latest_files, opened, run,
                  shown, loads >>

\* A chart method that raises: nothing is saved; the except clause of
\* generate_* prints the error and the method returns.
ChartRaise ==
  /\ pc.at = "chart"
  /\ Raises(Charts(script)[pc.i], data)
  /\ exc' = "caught"
  /\ console' = console \cup {Line("error", "", 0)}
  /\ pc' = At("exit", pc.i)
  /\ UNCHANGED << results, dirs, out, script, data, latest_files, opened,
                  run, shown, loads >>

\* The directory the validator copies from.
ExcellentDir == "enhanced_journal_figures"

\* One iteration of copy_validated_excellent_visualizations: the source is
\* copied when it exists, a warning is printed when it does not.  copy2 of a
\* path with no file raises, into the except clause of the caller.
CopyExcellent ==
  /\ pc.at = "copy"
  /\ LET e == ExcellentFiles[pc.i]
         source_path == <<ExcellentDir, e.src>>
         source == {f \in out : f.path = source_path}
         next == IF pc.i < Len(ExcellentFiles) THEN At("copy", pc.i + 1)
                 ELSE At("summary", 0)
     IN IF Exists(out, source_path)
        THEN IF source = {}
             THEN /\ out' = out
                  /\ exc' = "caught"
                  /\ console' = console \cup {Line("error", "", 0)}
                  /\ pc' = At("exit", pc.i)
             ELSE \* shutil.copy2(source_path, dest_path)
                  /\ out' = Savefig(out, <<OutputDir(script), e.dest>>,
                                    (CHOOSE f \in source : TRUE).content)
                  /\ console' = console \cup {Line("copied", e.src, 0)}
                  /\ pc' = next
                  /\ exc' = exc
        ELSE /\ out' = out
             /\ console' = console \cup {Line("warning", e.src, 0)}
             /\ pc' = next
             /\ exc' = exc
  /\ UNCHANGED << results, dirs, script, data, latest_files, opened, run,
                  shown, loads >>

\* A success message that states 7 whatever the script.
TotalAlwaysSeven(s) == 7

\* The number the success message states.
TotalFigures(s) ==
  CASE s = "enhanced" -> 7
    [] s = "scdlac" -> 5
    [] OTHER -> 7

\* The end of the try block of generate_*: the success message, and in the
\* SC-DLAC generator and the validator the list of the .png files of the
\* output directory.
Summary ==
  /\ pc.at = "summary"
  /\ console' = console
       \cup {Line("total", "", TotalFigures(script))}
       \cup (IF script = "enhanced" THEN {}
             ELSE { Line("listed", f.path[2], 0) :
                    f \in {g \in out : g.path[1] = OutputDir(script)} })
  /\ pc' = At("exit", 0)
  /\ UNCHANGED << results, dirs, out, script, data, latest_files, opened,
                  exc, run, shown, loads >>

Next ==
  \/ \E s \in ClassScripts : Invoke(s)
  \/ \E g \in GraphScripts : RunGraphScript(g)
  \/ Construct
  \/ EnhancedFind
  \/ EnhancedParse
  \/ ScdlacLoad
  \/ Loaded
  \/ ChartOk
  \/ ChartRaise
  \/ CopyExcellent
  \/ Summary

Spec == Init /\ [][Next]_vars

\* ------------------------------------------------- one script after another
\* The process has ended; the next invocation starts a fresh process on the
\* file system the earlier ones left.
Restart ==
  /\ pc.at = "exit"
  /\ run < MaxRuns
  /\ run' = run + 1
  /\ script' = "none"
  /\ pc' = At("idle", 0)
  /\ data' = << >>
  /\ latest_files' = << >>
  /\ opened' = {}
  /\ console' = {}
  /\ exc' = "none"
  /\ shown' = 0
  /\ loads' = << >>
  /\ UNCHANGED << results, dirs, out >>

\* Results directories for runs in a row: the 20240215 files only, all with
\* the same modification time.
RunFiles ==
  [name : {n \in ResultNames : n.segs[Len(n.segs)] = "20240215"},
   mtime : {1}, body : Bodies]

RunListings ==
  { << >> } \cup { <<f>> : f \in RunFiles }
    \cup { l \in { <<f, g>> : f \in RunFiles, g \in RunFiles } :
             l[1].name # l[2].name }

InitRuns ==
  /\ results \in RunListings
  /\ dirs = {".", "results"}
  /\ out = {}
  /\ run = 1
  /\ Fresh

NextRuns == Next \/ Restart

SpecRuns == InitRuns /\ [][NextRuns]_vars

\* ------------------------------------------- the loader called a second time
\* A caller that holds a visualizer calls its loader again, before any chart.
Reload ==
  /\ pc = At("chart", 1)
  /\ script \in {"enhanced", "scdlac"}
  /\ Len(loads) < MaxLoads
  /\ pc' = LoaderStart(script)
  /\ UNCHANGED << results, dirs, out, script, data, latest_files, opened,
                  console, exc, run, shown, loads >>

NextReload == Next \/ Reload

SpecReload == Init /\ [][NextReload]_vars

\* ---------------------------------------------------------------- claims
Generators == {"enhanced", "scdlac"}

\* The files of the results directory a pattern matches.
Matching(pattern) ==
  IF "results" \in dirs
  THEN {results[i] : i \in {j \in DOMAIN results : Matches(results[j].name, pattern)}}
  ELSE {}

\* The load of the running script that stores under a key.
LoadOf(key) ==
  Loads(script)[CHOOSE i \in DOMAIN Loads(script) : Loads(script)[i].key = key]

\* The loader's call has raised at its i-th load.
RaisedAt(i) == pc = At("exit", i) /\ exc = "uncaught"

\* The loader has returned.
LoaderReturned ==
  /\ script \in Generators
  /\ pc.at \in {"chart", "summary", "exit"}
  /\ exc # "uncaught"

\* The loads the loader has gone through so far.
Processed ==
  CASE pc.at = "find" -> 1..(pc.i - 1)
    [] pc.at = "load" -> 1..(pc.i - 1)
    [] pc.at \in {"idle", "init"} -> {}
    [] RaisedAt(pc.i) -> 1..pc.i
    [] OTHER -> DOMAIN Loads(script)

Latest(file, pattern) ==
  /\ file \in Matching(pattern)
  /\ \A g \in Matching(pattern) : g.mtime <= file.mtime

\* C1: in both loaders, for every pattern with a match the file chosen (kept
\* in latest_files, opened for parsing) is a matching file whose modification
\* time no other matching file exceeds.
C1_LatestFileSelected ==
  /\ \A o \in opened : Latest(o.file, LoadOf(o.key).pattern)
  /\ \A k \in DOMAIN latest_files : Latest(latest_files[k], LoadOf(k).pattern)
  /\ \A i \in Processed :
       Matching(Loads(script)[i].pattern) # {} =>
         \/ \E o \in opened : o.key = Loads(script)[i].key
         \/ Loads(script)[i].key \in DOMAIN latest_files

\* A newer file listed after an older one of the same pattern was opened.
C1_Witness ==
  \E o \in opened :
    \E i, j \in DOMAIN results :
      /\ i < j
      /\ results[j] = o.file
      /\ results[i] \in Matching(LoadOf(o.key).pattern)
      /\ results[i].mtime < results[j].mtime

\* What the loader left for a key: whether self.data holds it, what it
\* printed about it, whether it raised there.
Outcome(key) ==
  [stored |-> key \in DOMAIN data,
   lines |-> {l.line : l \in {m \in console : m.key = key}},
   raised |-> \E i \in DOMAIN Loads(script) :
                Loads(script)[i].key = key /\ RaisedAt(i)]

AbsentOutcome == [stored |-> FALSE, lines |-> {}, raised |-> FALSE]

LoadedOutcome == [stored |-> TRUE, lines |-> {"loaded"}, raised |-> FALSE]

\* C2: a pattern that matches nothing raises nothing and leaves its key out
\* of self.data, and the loader still goes through the other patterns: it
\* only ever raises at a pattern whose latest file is malformed, and when it
\* returns every pattern with a match has been opened.
C2_AbsentIsNonFatal ==
  /\ \A i \in DOMAIN Loads(script) :
       Matching(Loads(script)[i].pattern) = {} =>
         /\ Outcome(Loads(script)[i].key) = AbsentOutcome
         /\ ~RaisedAt(i)
  /\ exc = "uncaught" =>
       \E o \in opened : o.key = Loads(script)[pc.i].key /\ o.file.body = "malformed"
  /\ \A i \in Processed :
       Matching(Loads(script)[i].pattern) # {} /\ pc.at \notin {"find", "parse"} =>
         \E o \in opened : o.key = Loads(script)[i].key

\* The loader has returned, having stored a dataset whose pattern comes
\* after a pattern without a match.
C2_Witness ==
  /\ LoaderReturned
  /\ \E i, j \in DOMAIN Loads(script) :
       /\ i < j
       /\ Matching(Loads(script)[i].pattern) = {}
       /\ Loads(script)[j].key \in DOMAIN data

\* C3: a selected file that does not parse leaves an outcome (a printed
\* failure, or an exception) that is neither the outcome of a pattern
\* without a match nor that of a file that parsed.
C3_ParseFailureDistinguishable ==
  /\ \A o \in opened :
       IF o.file.body = "malformed"
       THEN Outcome(o.key) \notin {AbsentOutcome, LoadedOutcome}
       ELSE Outcome(o.key) = LoadedOutcome
  /\ \A i \in DOMAIN Loads(script) :
       Matching(Loads(script)[i].pattern) = {} =>
         Outcome(Loads(script)[i].key) = AbsentOutcome

\* The enhanced loader has returned after a file failed to parse.
C3_Witness ==
  /\ script = "enhanced"
  /\ LoaderReturned
  /\ \E o \in opened : o.file.body = "malformed"

\* C4: in the enhanced generator a file that fails to parse is logged,
\* exactly its dataset is missing from self.data, the datasets whose latest
\* file parses are all loaded, and the chart methods are attempted.
C4_MalformedIsContained ==
  script = "enhanced" =>
    /\ exc # "uncaught"
    /\ LoaderReturned =>
         /\ \A i \in DOMAIN EnhancedLoads :
              LET ld == EnhancedLoads[i]
                  newest == {f \in Matching(ld.pattern) : Latest(f, ld.pattern)}
              IN /\ ld.key \in DOMAIN data <=>
                      \E o \in opened : o.key = ld.key /\ o.file.body # "malformed"
                 /\ Line("failed", ld.key, 0) \in console <=>
                      \E o \in opened : o.key = ld.key /\ o.file.body = "malformed"
                 /\ newest # {} => \E o \in opened : o.key = ld.key /\ o.file \in newest
                 /\ ld.key \in DOMAIN data => \E f \in newest : data[ld.key] = f.body
    /\ pc.at = "exit" =>
         \/ Line("created", EnhancedCharts[1].file, 0) \in console
         \/ Line("error", "", 0) \in console

\* One dataset failed to parse, another was loaded, and a chart was made.
C4_Witness ==
  /\ script = "enhanced"
  /\ pc.at = "chart" /\ pc.i > 1
  /\ \E o \in opened : o.file.body = "malformed"
  /\ DOMAIN data # {}

Security0101 == [segs |-> <<"security", "tests", "20240101">>, ext |-> "json"]
Security0215 == [segs |-> <<"security", "tests", "20240215">>, ext |-> "json"]

\* The example of the specification: both security files are there and
\* parse, and a generator's loader has returned.
ExampleScenario ==
  /\ LoaderReturned
  /\ \E f, g \in Matching(<<"security", "tests", "*.json">>) :
       /\ f.name = Security0101 /\ f.body # "malformed"
       /\ g.name = Security0215 /\ g.body # "malformed"

ExampleLoads0215 ==
  \E o \in opened :
    /\ o.key = "security"
    /\ o.file.name = Security0215
    /\ "security" \in DOMAIN data /\ data["security"] = o.file.body

\* C5 as stated: in the example the 20240215 file is loaded, whatever the
\* modification times.
C5_AsStated == ExampleScenario => ExampleLoads0215

\* C5 as amended: in the example the 20240215 file is loaded whenever its
\* modification time is the greater one, and the 20240101 file when its
\* modification time is the greater one.
C5_ExampleByMtime ==
  ExampleScenario =>
    \A f, g \in Matching(<<"security", "tests", "*.json">>) :
      f.name = Security0101 /\ g.name = Security0215 =>
        /\ g.mtime > f.mtime => ExampleLoads0215
        /\ f.mtime > g.mtime =>
             \E o \in opened : o.key = "security" /\ o.file = f
                               /\ data["security"] = f.body

\* The example with the 20240215 file the newer one, listed last, and the
\* two files parsing to different contents.
C5_Witness ==
  /\ ExampleScenario
  /\ Len(results) = 2
  /\ results[1].name = Security0101 /\ results[2].name = Security0215
  /\ results[1].mtime < results[2].mtime
  /\ results[1].body # results[2].body

C7_ResultsAreReadOnly ==
  [][/\ results' = results
     /\ ("results" \in dirs') = ("results" \in dirs)]_vars

\* A generator has read result files, saved charts and ended.
C7_Witness ==
  /\ pc.at = "exit"
  /\ opened # {}
  /\ \E f \in out : f.content.run = run

\* C8: once the loader has returned, no step changes self.data, whether or
\* not a chart method raises.
C8_DataIsImmutable ==
  [][pc.at \in {"chart", "copy", "summary", "exit"} => data' = data]_vars

\* A generator has ended after the chart that reads the loaded security
\* dataset was made.
C8_Witness ==
  /\ script \in Generators
  /\ pc.at = "exit"
  /\ "security" \in DOMAIN data
  /\ \E f \in out : f.content.run = run /\ "security" \in DOMAIN f.content.series

\* The path a chart method of the running script saves at.
ChartPath(i) == <<OutputDir(script), Charts(script)[i].file>>

\* The step is a chart method returning.
ChartReturns ==
  /\ pc.at = "chart"
  /\ pc'.at \in {"chart", "copy", "summary"}
  /\ pc' # pc

\* C9: a chart method that returns leaves exactly one file at its own path,
\* the one it has just made, whatever was there before, and every file at
\* another path as it was; the paths of a script's chart methods differ.
C9_OneChartOneFile ==
  [][ChartReturns =>
       /\ {f \in out' : f.path # ChartPath(pc.i)} = {f \in out : f.path # ChartPath(pc.i)}
       /\ Cardinality({f \in out' : f.path = ChartPath(pc.i)}) = 1
       /\ \A f \in out' :
            f.path = ChartPath(pc.i) =>
              /\ f.content.by = Charts(script)[pc.i].method
              /\ f.content.run = run
       /\ \A j \in DOMAIN Charts(script) : j # pc.i => ChartPath(j) # ChartPath(pc.i)]_vars

\* In a second invocation the first chart has replaced the file an earlier
\* invocation left at its path, next to other files of that invocation.
C9_Witness ==
  /\ run = 2
  /\ pc = At("chart", 2)
  /\ \E f \in out : f.path = ChartPath(1) /\ f.content.run = 2
  /\ \E g \in out : g.path = ChartPath(2) /\ g.content.run = 1

\* The running script has written an image file in this invocation.
WroteImage == \E f \in out : f.content.run = run

C11_ChartsAreDeterministic ==
  [][ChartReturns =>
       \A f \in out, g \in out' :
         /\ f.path = ChartPath(pc.i) /\ g.path = ChartPath(pc.i)
         /\ f.content.by = g.content.by
         /\ f.content.series = g.content.series
         => g.content.noise = f.content.noise]_vars

\* The datasets the chart methods read that are in self.data all have the
\* fields the methods index.
PresentAreSound ==
  \A i \in DOMAIN Charts(script) :
    \A k \in Charts(script)[i].reads \cap DOMAIN data : data[k] = "wellformed"

\* The chart methods of the running generator that have been called and have
\* come to an end.
ChartsDone ==
  CASE pc.at = "chart" -> 1..(pc.i - 1)
    [] pc.at = "summary" -> DOMAIN Charts(script)
    [] pc.at = "exit" /\ exc = "none" -> DOMAIN Charts(script)
    [] pc.at = "exit" /\ exc = "caught" -> 1..pc.i
    [] OTHER -> {}

\* The file chart method i of the running script has written in this run.
WrittenBy(i) ==
  {f \in out : /\ f.path = ChartPath(i)
               /\ f.content.by = Charts(script)[i].method
               /\ f.content.run = run}

\* C12: in the two generators, whichever datasets are absent from self.data
\* (the present ones having the fields the charts index), no chart method
\* raises and each writes its file, drawn from the datasets that are present
\* only; a generator that has ended has written all its 7 or 5 files.
C12_AbsentDatasetsDegrade ==
  LoaderReturned /\ PresentAreSound =>
    /\ exc = "none"
    /\ \A i \in ChartsDone :
         /\ WrittenBy(i) # {}
         /\ \A f \in WrittenBy(i) :
              DOMAIN f.content.series = Charts(script)[i].reads \cap DOMAIN data
    /\ pc.at = "exit" =>
         Cardinality({f \in out : f.path[1] = OutputDir(script)}) = TotalFigures(script)

\* A generator has ended with no dataset at all in self.data and all its
\* files written.
C12_Witness ==
  /\ script \in Generators
  /\ pc.at = "exit"
  /\ DOMAIN data = {}
  /\ \A i \in DOMAIN Charts(script) : WrittenBy(i) # {}

\* The step is a chart method raising.
ChartRaises == pc.at = "chart" /\ Raises(Charts(script)[pc.i], data)

\* C13 as stated: an exception raised inside a chart method is caught by
\* nothing and ends the script, and the files written before are left.
C13_AsStated ==
  [][ChartRaises => exc' = "uncaught" /\ pc'.at = "exit" /\ out' = out]_vars

\* C13 as amended: an exception raised inside a chart method is caught by the
\* except clause of generate_*, which prints the error line; the script then
\* ends without calling another chart method, and every image file is left
\* as it was, those of the earlier chart methods of the run among them.
C13_RaiseIsCaught ==
  [][ChartRaises =>
       /\ exc' = "caught"
       /\ Line("error", "", 0) \in console'
       /\ pc' = At("exit", pc.i)
       /\ out' = out
       /\ \A i \in 1..(pc.i - 1) : WrittenBy(i) # {}]_vars

\* The second chart method of the enhanced generator has raised after the
\* first had written its file.
C13_Witness ==
  /\ script = "enhanced"
  /\ exc = "caught"
  /\ Line("error", "", 0) \in console
  /\ WrittenBy(1) # {}

\* C14: constructing a visualizer raises nothing and leaves its output
\* directory existing, from then on; a directory that existed before still
\* exists and no image file is removed or changed by the construction.
C14_OutputDirExists ==
  [][/\ pc.at = "init" =>
          /\ OutputDir(script) \in dirs'
          /\ dirs \subseteq dirs'
          /\ exc' = "none"
          /\ pc' = LoaderStart(script)
          /\ out' = out
     /\ script' \in ClassScripts /\ pc'.at \notin {"idle", "init"} =>
          OutputDir(script') \in dirs']_vars

\* A visualizer has been constructed in a second invocation, over an output
\* directory that holds files of the first.
C14_Witness ==
  /\ run = 2
  /\ script \in ClassScripts
  /\ pc = LoaderStart(script)
  /\ \E f \in out : f.path[1] = OutputDir(script) /\ f.content.run = 1

\* C15: when the first chart method of a generator starts, every pattern
\* with a match has had its file opened; from then on no step lists the
\* results directory, picks a file or opens one, and the run never goes back
\* into the loader.
C15_ReadBeforeRender ==
  [][pc.at \in {"chart", "copy", "summary", "exit"} =>
       /\ script \in Generators =>
            \A i \in DOMAIN Loads(script) :
              Matching(Loads(script)[i].pattern) # {} =>
                \E o \in opened : o.key = Loads(script)[i].key
       /\ pc'.at \in {"chart", "copy", "summary", "exit"}
       /\ opened' = opened
       /\ latest_files' = latest_files
       /\ results' = results]_vars

\* A generator that opened two result files has made all its charts.
C15_Witness ==
  /\ script \in Generators
  /\ pc.at = "summary"
  /\ Cardinality(opened) = 2

\* The paths of the image files there are.
Paths(files) == {f.path : f \in files}

\* C16: a generator calls its chart methods in their fixed order, each once:
\* when the k-th is called the files written are exactly those of the k-1
\* before it; it either returns, having added its own file, and the next one
\* (or the summary) follows, or it raises and the run ends with no further
\* chart method called and no file added.
C16_NoRetryNoCleanup ==
  [][pc.at = "chart" /\ script \in Generators =>
       /\ Paths(out) = {ChartPath(j) : j \in 1..(pc.i - 1)}
       /\ \/ /\ pc' = IF pc.i < Len(Charts(script)) THEN At("chart", pc.i + 1)
                      ELSE At("summary", 0)
             /\ Paths(out') = {ChartPath(j) : j \in 1..pc.i}
             /\ exc' = "none"
          \/ /\ pc' = At("exit", pc.i)
             /\ exc' = "caught"
             /\ out' = out]_vars

\* The enhanced generator has ended at its second chart method, with the
\* file of the first as the only file written and no later chart announced.
C16_Witness ==
  /\ script = "enhanced"
  /\ pc = At("exit", 2)
  /\ Paths(out) = {ChartPath(1)}
  /\ \A j \in 2..Len(EnhancedCharts) :
       Line("created", EnhancedCharts[j].file, 0) \notin console

\* The chart methods of the running script whose file this run has written.
WrittenCharts == {i \in DOMAIN Charts(script) : WrittenBy(i) # {}}

\* C17: in the generators the success line states 7 (enhanced) or 5
\* (SC-DLAC), and is printed only when no chart method raised and that many
\* files were written by the run; when a chart method raised the error line
\* is printed and the success line is not.
C17_TruthfulSummary ==
  script \in Generators =>
    /\ \A l \in console :
         l.line = "total" =>
           /\ l.n = (IF script = "enhanced" THEN 7 ELSE 5)
           /\ l.n = Cardinality(WrittenCharts)
           /\ exc = "none"
           /\ Line("error", "", 0) \notin console
    /\ exc = "caught" =>
         /\ Line("error", "", 0) \in console
         /\ \A l \in console : l.line # "total"
    /\ pc.at = "exit" /\ exc = "none" => \E l \in console : l.line = "total"

\* The SC-DLAC generator has printed its success line.
C17_Witness ==
  /\ script = "scdlac"
  /\ Line("total", "", 5) \in console
  /\ Cardinality(WrittenCharts) = 5

\* C18: when the validator has printed 'Total validated figures: 7' its
\* output directory holds the 7 validated figures: the 4 its fix_* methods
\* wrote and the 3 copies.
C18_ValidatedSetComplete ==
  script = "validator" /\ Line("total", "", 7) \in console =>
    /\ Cardinality(WrittenCharts) = 4
    /\ \A i \in DOMAIN ExcellentFiles :
         <<OutputDir(script), ExcellentFiles[i].dest>> \in Paths(out)
    /\ Cardinality({f \in out : f.path[1] = OutputDir(script)}) = 7

\* The files of the directory the validator copies from.
Sources(files) == {f \in files : f.path[1] = ExcellentDir}

\* C19: each iteration of the copy step raises nothing and goes on to the
\* next name; when the source exists the destination gets its content, when
\* it does not a warning is printed and no file changes; the files of
\* enhanced_journal_figures stay as they are.  The three copies are all
\* there after the copy step only if the enhanced generator had written its
\* figures.
C19_CopyIffSourceExists ==
  [][/\ pc.at = "copy" =>
          LET e == ExcellentFiles[pc.i]
              source == {f \in out : f.path = <<ExcellentDir, e.src>>}
              dest == <<"validated_publication_figures", e.dest>>
          IN /\ exc' = "none"
             /\ pc' = IF pc.i < 3 THEN At("copy", pc.i + 1) ELSE At("summary", 0)
             /\ Sources(out') = Sources(out)
             /\ IF source # {}
                THEN /\ \E f \in source :
                          [path |-> dest, content |-> f.content] \in out'
                     /\ {g \in out' : g.path # dest} = {g \in out : g.path # dest}
                     /\ Line("copied", e.src, 0) \in console'
                     /\ Line("warning", e.src, 0) \notin console'
                ELSE /\ out' = out
                     /\ Line("warning", e.src, 0) \in console'
                     /\ Line("copied", e.src, 0) \notin console'
     /\ (/\ script = "validator" /\ pc.at = "summary"
         /\ \A i \in DOMAIN ExcellentFiles :
              <<"validated_publication_figures", ExcellentFiles[i].dest>> \in Paths(out))
        => \A i \in DOMAIN ExcellentFiles :
             \E f \in Sources(out) :
               /\ f.path[2] = ExcellentFiles[i].src
               /\ f.content.by \in {c.method : c \in {EnhancedCharts[j] : j \in DOMAIN EnhancedCharts}}
               /\ f.content.run < run]_vars

\* The validator, run after the enhanced generator had written its figures,
\* has copied the three sources, which are still where they were.
C19_Witness ==
  /\ script = "validator"
  /\ pc.at = "summary"
  /\ \A i \in DOMAIN ExcellentFiles :
       /\ Line("copied", ExcellentFiles[i].src, 0) \in console
       /\ \E f \in Sources(out) :
            /\ f.path[2] = ExcellentFiles[i].src
            /\ [path |-> <<OutputDir(script), ExcellentFiles[i].dest>>,
                content |-> f.content] \in out

\* C20: in the SC-DLAC generator, a pattern all of whose newest files fail
\* to parse makes the loader raise at that pattern with nothing catching it:
\* no dataset of a later pattern is opened or stored, no chart method is
\* called and no chart file written, although the chart methods read no
\* dataset but 'security'.
C20_UnprotectedLoad ==
  script = "scdlac" =>
    /\ \A i \in Processed :
         LET ld == ScdlacLoads[i]
             newest == {f \in Matching(ld.pattern) : Latest(f, ld.pattern)}
         IN newest # {} /\ (\A f \in newest : f.body = "malformed") =>
              /\ RaisedAt(i)
              /\ \A j \in (i + 1)..Len(ScdlacLoads) :
                   /\ ScdlacLoads[j].key \notin DOMAIN data
                   /\ \A o \in opened : o.key # ScdlacLoads[j].key
              /\ WrittenCharts = {}
              /\ \A l \in console : l.line \notin {"created", "total", "error", "count"}
    /\ \A j \in DOMAIN ScdlacCharts : ScdlacCharts[j].reads \subseteq {"security"}

\* The SC-DLAC loader has raised at the healthcare-workflows file, after
\* the security dataset was loaded.
C20_Witness ==
  /\ script = "scdlac"
  /\ RaisedAt(4)
  /\ "security" \in DOMAIN data
  /\ out = {}

\* The matching files of a pattern that no matching file is newer than.
Newest(pattern) == {f \in Matching(pattern) : Latest(f, pattern)}

\* C21: when the enhanced loader ends, one file at most has been opened per
\* pattern, and it is a newest matching file; a dataset in self.data is the
\* parsed content of that file; and when every newest matching file of a
\* pattern fails to parse the dataset is absent, whatever older files match.
C21_NoFallback ==
  [][pc.at = "loaded" /\ script = "enhanced" =>
       \A i \in DOMAIN EnhancedLoads :
         LET ld == EnhancedLoads[i]
             tried == {o \in opened : o.key = ld.key}
         IN /\ Cardinality(tried) <= 1
            /\ \A o \in tried : o.file \in Newest(ld.pattern)
            /\ ld.key \in DOMAIN data =>
                 \E o \in tried : /\ o.file.body # "malformed"
                                  /\ data[ld.key] = Parsed(o.file)
            /\ (\A f \in Newest(ld.pattern) : f.body = "malformed") =>
                 ld.key \notin DOMAIN data]_vars

\* The enhanced loader has returned without the security dataset, whose
\* newest file fails to parse while an older one parses.
C21_Witness ==
  /\ script = "enhanced"
  /\ LoaderReturned
  /\ "security" \notin DOMAIN data
  /\ \E f, g \in Matching(<<"security", "tests", "*.json">>) :
       /\ f.mtime < g.mtime
       /\ f.body = "wellformed"
       /\ g.body = "malformed"

\* The eight keys the enhanced loader is to store its datasets under.
EightKeys ==
  {"comprehensive", "detailed", "system", "dacems", "enhanced", "security",
   "healthcare", "emergency"}

\* The patterns of the enhanced loader whose kept file was opened and parsed.
ParsedPatterns ==
  {i \in DOMAIN EnhancedPatterns :
     \E o \in opened : /\ Matches(o.file.name, EnhancedPatterns[i])
                       /\ o.file.body # "malformed"}

\* C22: the keys the enhanced loader derives from its eight patterns are the
\* eight named ones, pairwise distinct; when the loader ends the keys of
\* self.data are among them, and both their number and the count the loader
\* prints equal the number of patterns that matched and parsed.
C22_KeysNeverCollide ==
  [][pc.at = "loaded" /\ script = "enhanced" =>
       /\ \A i, j \in DOMAIN EnhancedPatterns :
            SplitKey(EnhancedPatterns[i]) = SplitKey(EnhancedPatterns[j]) => i = j
       /\ {SplitKey(EnhancedPatterns[i]) : i \in DOMAIN EnhancedPatterns} = EightKeys
       /\ Len(EnhancedPatterns) = 8
       /\ DOMAIN data \subseteq EightKeys
       /\ Cardinality(DOMAIN data) = Cardinality(ParsedPatterns)
       /\ Line("count", "", Cardinality(ParsedPatterns)) \in console'
       /\ \A l \in console' : l.line = "count" => l.n = Cardinality(ParsedPatterns)]_vars

\* The enhanced loader has stored two datasets and printed the count 2.
C22_Witness ==
  /\ script = "enhanced"
  /\ LoaderReturned
  /\ DOMAIN data = {"security", "healthcare"}
  /\ Line("count", "", 2) \in console

\* The path the two responsiveness scripts save at.
SharedPath == <<".", "system_responsiveness.jpg">>

SharingScripts == {"responsive.py", "system-responsiveness.py"}

\* C23: responsive.py and system-responsiveness.py both save
\* system_responsiveness.jpg in the working directory, and no other two
\* scripts of graphs/ save the same path; a graphs/ script that has run
\* leaves at each of its paths exactly one file, its own, so that the shared
\* path holds the chart of the script that ran last, and it leaves the files
\* at other paths as they were.
C23_SharedOutputPath ==
  [][pc.at = "idle" /\ pc'.at = "exit" =>
       /\ \A g, h \in GraphScripts :
            g # h /\ g.saves \cap h.saves # {} =>
              /\ {g.script, h.script} = SharingScripts
              /\ g.saves \cap h.saves = {SharedPath[2]}
       /\ \A s \in SharingScripts :
            \E g \in GraphScripts : g.script = s /\ g.saves = {SharedPath[2]}
       /\ \A g \in GraphScripts :
            g.script = script' =>
              /\ \A n \in g.saves :
                   /\ Cardinality({f \in out' : f.path = <<".", n>>}) = 1
                   /\ \A f \in out' :
                        f.path = <<".", n>> =>
                          f.content.by = g.script /\ f.content.run = run
              /\ {f \in out' : f.path \notin {<<".", n>> : n \in g.saves}}
                   = {f \in out : f.path \notin {<<".", n>> : n \in g.saves}}]_vars

\* In a second invocation responsive.py has run after a script that ended,
\* and the one file at the shared path is its chart.
C23_Witness ==
  /\ run = 2
  /\ script = "responsive.py"
  /\ pc.at = "exit"
  /\ \E f \in out : f.path = SharedPath /\ f.content.by = "responsive.py"
  /\ \A f \in out : f.path = SharedPath => f.content.by # "system-responsiveness.py"

\* The methods of the validator that draw a chart.
FixMethods == {ValidatorCharts[i].method : i \in DOMAIN ValidatorCharts}

\* C24: no step of the validator lists the results directory, keeps a file
\* of it or opens one; what its loader produces and what its four fix_*
\* charts are drawn from hold nothing taken from the directory, so they are
\* the same for every content of the directory, a missing one included.
C24_ValidatorIgnoresResults ==
  [][script = "validator" =>
       /\ opened' = {}
       /\ latest_files' = << >>
       /\ results' = results
       /\ data' = << >>
       /\ \A i \in DOMAIN loads' : loads'[i] = << >>
       /\ \A i \in DOMAIN ValidatorCharts : ValidatorCharts[i].reads = {}
       /\ \A f \in out' :
            f.content.by \in FixMethods => DOMAIN f.content.series = {}]_vars

\* The validator has drawn its four charts next to a results directory
\* that holds a security file the generators would load.
C24_Witness ==
  /\ script = "validator"
  /\ pc.at = "exit"
  /\ Cardinality(WrittenCharts) = 4
  /\ \E f \in Matching(<<"security", "tests", "*.json">>) : f.body = "wellformed"

\* The datasets the charts of the enhanced generator are drawn from.
FiveKeys == {"enhanced", "system", "detailed", "dacems", "security"}

\* C25: the chart methods of the enhanced generator read the datasets
\* enhanced, system, detailed, dacems and security and no other; whether a
\* chart method returns or raises, and what the file it writes is drawn
\* from, is determined by the part of self.data under these five keys, so
\* the parseable contents of the other files make no difference.
C25_UnreadDatasets ==
  [][pc.at = "chart" /\ script = "enhanced" =>
       LET chart == EnhancedCharts[pc.i]
           sound == \A k \in FiveKeys \cap DOMAIN data : data[k] = "wellformed"
       IN /\ UNION {EnhancedCharts[i].reads : i \in DOMAIN EnhancedCharts} = FiveKeys
          /\ sound => ChartReturns
          /\ ChartReturns =>
               \A f \in out' :
                 f.path = ChartPath(pc.i) =>
                   f.content.series =
                     [k \in chart.reads \cap FiveKeys \cap DOMAIN data |-> data[k]]]_vars

\* The enhanced generator has made all its charts with a healthcare dataset
\* loaded whose content lacks the fields a chart would index, and a security
\* dataset loaded as well.
C25_Witness ==
  /\ script = "enhanced"
  /\ pc.at = "exit"
  /\ exc = "none"
  /\ DOMAIN data = {"security", "healthcare"}
  /\ data["healthcare"] = "misshapen"
  /\ Cardinality(WrittenCharts) = 7

\* The image files a script or chart method has written.
FilesBy(who) == {f \in out : f.content.by = who}

\* C26: the chart operational_gas.py saves is drawn from 15 functions and
\* 15 gas costs, paired by index, with the gas costs in non-increasing
\* order.
C26_GasCostsSorted ==
  FilesBy("operational_gas.py") # {} =>
    /\ Len(functions) = 15
    /\ Len(gas_costs) = 15
    /\ \A i, j \in DOMAIN gas_costs : i < j => gas_costs[i] >= gas_costs[j]

\* C27: in the figure fix_enhanced_performance_analysis writes, every
\* operation has P99 > P95 > mean, and every request rate of the load panel
\* has a P95 latency above the average latency.
C27_PercentilesOrdered ==
  FilesBy("fix_enhanced_performance_analysis") # {} =>
    /\ DOMAIN means = DOMAIN operations
    /\ DOMAIN p95s = DOMAIN operations
    /\ DOMAIN p99s = DOMAIN operations
    /\ \A i \in DOMAIN operations : p99s[i] > p95s[i] /\ p95s[i] > means[i]
    /\ DOMAIN avg_latencies = DOMAIN request_rates
    /\ DOMAIN p95_latencies = DOMAIN request_rates
    /\ \A i \in DOMAIN request_rates : p95_latencies[i] > avg_latencies[i]

\* The validator has written its performance figure.
C27_Witness ==
  /\ script = "validator"
  /\ pc.at = "chart" /\ pc.i = 2
  /\ \E f \in FilesBy("fix_enhanced_performance_analysis") :
       f.path = ChartPath(1) /\ f.content.run = run

====
